---- MODULE Spec2Model ----
(***************************************************************************)
(* Model of experience_extractor.py: the batch loop over uploaded resumes, *)
(* text extraction, the heuristic estimator, the model-call loop of        *)
(* ask_gemini_for_years and convert_decimal_to_human.                      *)
(*                                                                         *)
(* Floats are fixed point: a finite float is [k |-> "num", m |-> n] with n *)
(* in thousandths of a year; NaN (json.loads accepts the literal) is       *)
(* [k |-> "nan", m |-> 0].  Strings are sequences of tokens: one token per *)
(* character, except that a word the code only treats as a whole (a unit   *)
(* word, a JSON key, a JSON literal) is one token.                         *)
(***************************************************************************)
EXTENDS Integers, Sequences, FiniteSets, TLC

\* ---------------------------------------------------------------- bounds
MaxDocs == 2
MaxMilli == 3100

\* ------------------------------------------------------- float arithmetic
Num(n) == [k |-> "num", m |-> n]
NaN == [k |-> "nan", m |-> 0]

\* nearest multiple of unit, ties to the even multiple (Python round())
RoundHalfEven(n, unit) ==
  LET q == n \div unit
      r == n % unit
  IN  IF 2 * r < unit THEN q
      ELSE IF 2 * r > unit THEN q + 1
      ELSE IF q % 2 = 0 THEN q ELSE q + 1

\* round(x, 1) on a float
Round1(x) == IF x.k = "nan" THEN NaN ELSE Num(100 * RoundHalfEven(x.m, 100))

\* int(x) on a finite float, in whole units: truncation toward zero
Trunc(n, unit) == IF n >= 0 THEN n \div unit ELSE -((-n) \div unit)

\* --------------------------------------------------------------- strings
Digits == {"0", "1", "2", "3", "4", "5", "6", "7", "8", "9"}
DigitVal(c) ==
  CASE c = "0" -> 0 [] c = "1" -> 1 [] c = "2" -> 2 [] c = "3" -> 3
    [] c = "4" -> 4 [] c = "5" -> 5 [] c = "6" -> 6 [] c = "7" -> 7
    [] c = "8" -> 8 [] c = "9" -> 9

IsDigit(s, p) == p >= 1 /\ p <= Len(s) /\ s[p] \in Digits
IsSpace(s, p) == p >= 1 /\ p <= Len(s) /\ s[p] = " "

\* first position >= p that does not hold a digit
RECURSIVE DigitsEnd(_, _)
DigitsEnd(s, p) == IF IsDigit(s, p) THEN DigitsEnd(s, p + 1) ELSE p

\* first position >= p that does not hold whitespace  (\s*)
RECURSIVE SkipWs(_, _)
SkipWs(s, p) == IF IsSpace(s, p) THEN SkipWs(s, p + 1) ELSE p

\* value of the digits s[p..e-1] read as an integer
RECURSIVE IntVal(_, _, _)
IntVal(s, p, e) == IF p >= e THEN 0 ELSE IntVal(s, p, e - 1) * 10 + DigitVal(s[e - 1])

\* thousandths for n fraction digits of integer value v (at most three)
FracScale(n, v) == IF n = 1 THEN 100 * v ELSE IF n = 2 THEN 10 * v ELSE v

\* value in thousandths of the fraction digits s[p..e-1]
FracMilli(s, p, e) == FracScale(e - p, IntVal(s, p, e))

\* the end of an optional (?:\.\d+) at e: e itself when there is none
FracEnd(s, e) ==
  IF e <= Len(s) /\ s[e] = "." /\ IsDigit(s, e + 1) THEN DigitsEnd(s, e + 1) ELSE e

\* the numeral s[p..fend-1] whose integer digits end before e
NumeralSpan(s, p, e, fend) ==
  [ok |-> TRUE, end |-> fend,
   m |-> IntVal(s, p, e) * 1000 + (IF fend > e THEN FracMilli(s, e + 1, fend) ELSE 0)]

NumeralFrom(s, p, e) == NumeralSpan(s, p, e, FracEnd(s, e))

NoNumeral(p) == [ok |-> FALSE, end |-> p, m |-> 0]

\* the regex group (\d+(?:\.\d+)?) matched at p: [ok, end, m]; the greedy
\* match is the only one that a following non-digit, non-dot pattern accepts
NumeralAt(s, p) ==
  IF ~IsDigit(s, p) THEN NoNumeral(p) ELSE NumeralFrom(s, p, DigitsEnd(s, p))

\* str.lower() on the word tokens that have an upper-case form
LowerTok(c) ==
  CASE c = "YEARS" -> "years" [] c = "Yrs" -> "yrs" [] c = "PDF" -> "pdf"
    [] c = "TXT" -> "txt" [] c = "Docx" -> "docx" [] OTHER -> c
Lower(s) == [j \in 1..Len(s) |-> LowerTok(s[j])]

\* re.sub(r'\s+', ' ', s).strip()
RECURSIVE CollapseWs(_)
CollapseWs(s) ==
  IF s = << >> THEN << >>
  ELSE IF s[1] = " " THEN <<" ">> \o CollapseWs(SubSeq(s, SkipWs(s, 1), Len(s)))
  ELSE <<s[1]>> \o CollapseWs(Tail(s))
Strip(s) ==
  LET a == SkipWs(s, 1)
      b == CHOOSE e \in 0..Len(s) :
             /\ \A j \in (e + 1)..Len(s) : s[j] = " "
             /\ (e = 0 \/ s[e] # " ")
  IN  IF a > b THEN << >> ELSE SubSeq(s, a, b)
Normalize(s) == Strip(CollapseWs(s))

\* ------------------------------------------ heuristic fallback for years
UnitWords == {"years", "year", "yrs", "yr"}

\* (?:\+)? at a
SkipPlus(s, a) == IF a <= Len(s) /\ s[a] = "+" THEN a + 1 ELSE a

\* (?:years?|yrs?) at c, closing a match that began at p with value m
YearsUnitAt(s, p, m, c) ==
  IF c <= Len(s) /\ s[c] \in UnitWords
  THEN [ok |-> TRUE, end |-> c + 1, m |-> m]
  ELSE NoNumeral(p)

\* \s*(?:\+)?\s*(?:years?|yrs?) after the numeral n matched at p
YearsAfterNumeral(s, p, n) ==
  IF n.ok THEN YearsUnitAt(s, p, n.m, SkipWs(s, SkipPlus(s, SkipWs(s, n.end))))
  ELSE NoNumeral(p)

\* one match of (\d+(?:\.\d+)?)\s*(?:\+)?\s*(?:years?|yrs?) starting at p
YearsMatchAt(s, p) == YearsAfterNumeral(s, p, NumeralAt(s, p))

\* re.finditer: the values of the non-overlapping matches, left to right
RECURSIVE YearsVals(_, _)
YearsNext(s, p, mt) ==
  IF mt.ok THEN {mt.m} \cup YearsVals(s, mt.end) ELSE YearsVals(s, p + 1)
YearsVals(s, p) == IF p > Len(s) THEN {} ELSE YearsNext(s, p, YearsMatchAt(s, p))

SetMax(S) == CHOOSE x \in S : \A y \in S : y <= x

\* round(max(vals), 1) if vals else 0.0
MaxRounded(vals) == IF vals = {} THEN Num(0) ELSE Round1(Num(SetMax(vals)))

fallback_years(text) ==
  IF text = << >> THEN Num(0) ELSE MaxRounded(YearsVals(Lower(text), 1))

\* ------------------------------------------------ model response parsing
\* Response tokens: "{" "}" "," "-" "." digits " ", "K" for the key
\* "total_years" with its colon, "O" for any other key with its colon,
\* "null", "NaN", "S" for a JSON string that is not a number, "w" for a word.

\* re.search(r'\{.*\}', raw, flags=re.DOTALL): first "{" to the last "}"
JsonSpan(raw) ==
  LET opens == {j \in 1..Len(raw) : raw[j] = "{"}
      a == IF opens = {} THEN 0 ELSE CHOOSE j \in opens : \A h \in opens : j <= h
      closes == {j \in 1..Len(raw) : raw[j] = "}" /\ j > a}
      b == IF closes = {} THEN 0 ELSE CHOOSE j \in closes : \A h \in closes : j >= h
  IN  IF a = 0 \/ b = 0 THEN [found |-> FALSE, span |-> << >>]
      ELSE [found |-> TRUE, span |-> SubSeq(raw, a, b)]

\* the end of the integer part of a JSON number: 0 | [1-9][0-9]*
JsonIntEnd(s, q) == IF IsDigit(s, q) /\ s[q] = "0" THEN q + 1 ELSE DigitsEnd(s, q)

JsonUnsignedAt(s, q) ==
  IF ~IsDigit(s, q) THEN NoNumeral(q) ELSE NumeralFrom(s, q, JsonIntEnd(s, q))

Negated(n) == [ok |-> n.ok, end |-> n.end, m |-> -n.m]

\* a JSON number at p: -? (0 | [1-9][0-9]*) (\.[0-9]+)?
JsonNumberAt(s, p) ==
  IF p <= Len(s) /\ s[p] = "-" THEN Negated(JsonUnsignedAt(s, p + 1))
  ELSE JsonUnsignedAt(s, p)

PyNone == [t |-> "none", x |-> Num(0)]
FloatValue(n) == [ok |-> n.ok, end |-> n.end, v |-> [t |-> "float", x |-> Num(n.m)]]

\* a JSON value at p; v is the Python object: a float, None or a string
JsonValueAt(s, p) ==
  IF p > Len(s) THEN [ok |-> FALSE, end |-> p, v |-> PyNone]
  ELSE IF s[p] = "null" THEN [ok |-> TRUE, end |-> p + 1, v |-> PyNone]
  ELSE IF s[p] = "S" THEN [ok |-> TRUE, end |-> p + 1, v |-> [t |-> "str", x |-> Num(0)]]
  ELSE IF s[p] = "NaN" THEN [ok |-> TRUE, end |-> p + 1, v |-> [t |-> "float", x |-> NaN]]
  ELSE FloatValue(JsonNumberAt(s, p))

JsonError == [ok |-> FALSE, has |-> FALSE, v |-> PyNone]

\* the members of an object from the key expected at p; has/v carry the
\* last "total_years" member seen so far (a repeated key keeps the last)
RECURSIVE JsonMembers(_, _, _, _)

\* after a member: "}" must close the text, "," must be followed by a key
JsonAfterMember(s, q, has, v) ==
  IF q > Len(s) THEN JsonError
  ELSE IF s[q] = "}" THEN [ok |-> q = Len(s), has |-> has, v |-> v]
  ELSE IF s[q] = "," THEN JsonMembers(s, SkipWs(s, q + 1), has, v)
  ELSE JsonError

\* the value val read for the key at p
JsonAfterValue(s, p, has, v, val) ==
  IF ~val.ok THEN JsonError
  ELSE JsonAfterMember(s, SkipWs(s, val.end), has \/ s[p] = "K",
                       IF s[p] = "K" THEN val.v ELSE v)

JsonMembers(s, p, has, v) ==
  IF p > Len(s) \/ s[p] \notin {"K", "O"} THEN JsonError
  ELSE JsonAfterValue(s, p, has, v, JsonValueAt(s, SkipWs(s, p + 1)))

JsonObjectFrom(s, p) ==
  IF p <= Len(s) /\ s[p] = "}" THEN [ok |-> p = Len(s), has |-> FALSE, v |-> PyNone]
  ELSE JsonMembers(s, p, FALSE, PyNone)

\* json.loads on a span that starts with "{": ok is FALSE when it raises
json_loads(s) == JsonObjectFrom(s, SkipWs(s, 2))

\* float(obj.get("total_years", 0.0)): ok is FALSE when float() raises
TotalYears(obj) ==
  IF ~obj.has THEN [ok |-> TRUE, x |-> Num(0)]
  ELSE IF obj.v.t = "float" THEN [ok |-> TRUE, x |-> obj.v.x]
  ELSE [ok |-> FALSE, x |-> Num(0)]

NoYears == [ok |-> FALSE, x |-> Num(0)]

\* line 209: return round(val, 1)
RoundedYears(val) == IF val.ok THEN [ok |-> TRUE, x |-> Round1(val.x)] ELSE NoYears

\* lines 207-208 on a parsed object
ObjectYears(obj) == IF obj.ok THEN RoundedYears(TotalYears(obj)) ELSE NoYears

\* lines 205-211 on the match m of the span
SpanYears(m) == IF m.found THEN ObjectYears(json_loads(m.span)) ELSE NoYears

\* lines 204-211: the value the JSON branch returns, ok FALSE when the
\* span is absent or the inner try raised
JsonYears(raw) == SpanYears(JsonSpan(raw))

\* the first position of raw that holds a digit, 0 when there is none
FirstDigit(raw) ==
  IF \A j \in 1..Len(raw) : raw[j] \notin Digits THEN 0
  ELSE CHOOSE j \in 1..Len(raw) :
         raw[j] \in Digits /\ \A h \in 1..(j - 1) : raw[h] \notin Digits

NumeralYearsAt(raw, p) ==
  IF p = 0 THEN NoYears ELSE [ok |-> TRUE, x |-> Round1(Num(NumeralAt(raw, p).m))]

\* lines 213-215: re.search(r'(\d+(?:\.\d+)?)', raw), rounded
NumeralYears(raw) == NumeralYearsAt(raw, FirstDigit(raw))

\* the numeral branch tried before the JSON branch
NumeralFirst(j, n, text) ==
  IF n.ok THEN [via |-> "numeral", x |-> n.x]
  ELSE IF j.ok THEN [via |-> "json", x |-> j.x]
  ELSE [via |-> "fallback", x |-> fallback_years(text)]

\* lines 205-216: JSON branch j, then numeral branch n, then the heuristic
JsonFirst(j, n, text) ==
  IF j.ok THEN [via |-> "json", x |-> j.x]
  ELSE IF n.ok THEN [via |-> "numeral", x |-> n.x]
  ELSE [via |-> "fallback", x |-> fallback_years(text)]

\* lines 204-216: the value returned for a response text raw, with the
\* branch that produced it
ParseResponse(raw, text) == JsonFirst(JsonYears(raw), NumeralYears(raw), text)

\* ------------------------------------------- decimal years to human text
\* convert_decimal_to_human without the "adjust overflow" step
ConvertNoCarry(decimal_years, method) ==
  LET d == decimal_years.m
      years == Trunc(d, 1000)
      part == (d - years * 1000) * 12
      months == IF method = "floor" THEN Trunc(part, 1000)
                ELSE RoundHalfEven(part, 1000)
  IN  IF years = 0 /\ months = 0 THEN <<0, "years">>
      ELSE IF months = 0 THEN <<years, "years">>
      ELSE IF years = 0 THEN <<months, "months">>
      ELSE <<years, "years", months, "months">>

\* the f-string result as tokens: <<3, "years", 6, "months">>
convert_decimal_to_human(decimal_years, method) ==
  LET d == decimal_years.m
      years == Trunc(d, 1000)
      part == (d - years * 1000) * 12
      months == IF method = "floor" THEN Trunc(part, 1000)
                ELSE RoundHalfEven(part, 1000)
      y2 == IF months >= 12 THEN years + 1 ELSE years
      m2 == IF months >= 12 THEN months - 12 ELSE months
  IN  IF y2 = 0 /\ m2 = 0 THEN <<0, "years">>
      ELSE IF m2 = 0 THEN <<y2, "years">>
      ELSE IF y2 = 0 THEN <<m2, "months">>
      ELSE <<y2, "years", m2, "months">>

\* int(decimal_years) raises ValueError on NaN and TypeError on None
ConvertRaises(decimal_years) == decimal_years.k # "num"

\* ------------------------------------------------------------ file names
\* os.path.splitext(name)[1]: from the last dot, unless only dots precede it
Suffix(name) ==
  LET dots == {j \in 1..Len(name) : name[j] = "."}
      last == IF dots = {} THEN 0 ELSE CHOOSE j \in dots : \A h \in dots : j >= h
  IN  IF last = 0 \/ \A j \in 1..(last - 1) : name[j] = "." THEN << >>
      ELSE SubSeq(name, last, Len(name))

\* tempfile.NamedTemporaryFile(delete=False, suffix=suffix).name
TmpName(suffix) == <<"tmp">> \o suffix

EndsWith(s, t) ==
  Len(s) >= Len(t) /\ SubSeq(s, Len(s) - Len(t) + 1, Len(s)) = t

\* extract_text: the reader the path dispatches to, "none" when it raises
\* ValueError("Unsupported file type ...")
ReaderFor(path) ==
  LET p == Lower(path)
  IN  IF EndsWith(p, <<".", "pdf">>) THEN "pdf"
      ELSE IF EndsWith(p, <<".", "docx">>) THEN "docx"
      ELSE IF EndsWith(p, <<".", "txt">>) THEN "txt"
      ELSE "none"

\* ------------------------------------------------------------ the inputs
max_retries == 2

Docs ==
  { [name |-> <<"a", ".", "txt">>,
     payload |-> <<"3", " ", "years", " ", " ", "2", ".", "5", "Yrs">>],
    [name |-> <<"b", ".", "PDF">>,
     payload |-> <<"w", " ", "1", "2", "+", " ", "YEARS">>],
    [name |-> <<"c", ".", "Docx">>, payload |-> <<" ">>],
    [name |-> <<"e", ".", "csv">>, payload |-> <<"7", "yr">>] }

Uploads == UNION {[1..n -> Docs] : n \in 1..MaxDocs}

Keys == {"", "key"}

RawTexts ==
  { <<"{", "K", " ", "3", ".", "8", "}">>,
    <<"w", "{", "K", "-", "2", "}">>,
    <<"{", "K", "NaN", "}">>,
    <<"{", "K", "null", "}">>,
    <<"{", "K", "S", ",", "O", "4", "}">>,
    <<"{", "O", "7", "}">>,
    <<"{", "K", "0", "4", "}">>,
    <<"w", " ", "4", ".", "2", "5">>,
    <<"w">> }

\* what client.models.generate_content returns: an object whose .text is a
\* string, an object whose .text is None, or an object without .text
Responses ==
  {[kind |-> "text", raw |-> r] : r \in RawTexts}
    \cup {[kind |-> "none", raw |-> << >>], [kind |-> "str", raw |-> <<"w", "4">>]}

NoFloat == [k |-> "none", m |-> 0]
NoResp == [kind |-> "unset", raw |-> << >>]

VARIABLES uploaded, api_key, pdfplumber, docx, GEMINI_CLIENT,
          i, pc, results, tmp_files, tmp_path, remove_failed,
          text, client, attempt, log, resp, slept, decimal,
          fd, fmethod, fout, fpc

envVars == <<uploaded, api_key, pdfplumber, docx, GEMINI_CLIENT>>
loopVars == <<i, pc, results, tmp_files, tmp_path, remove_failed>>
askVars == <<text, client, attempt, log, resp, slept, decimal>>
fmtVars == <<fd, fmethod, fout, fpc>>
vars == <<envVars, loopVars, askVars, fmtVars>>

f == uploaded[i]

Init ==
  /\ uploaded \in Uploads
  /\ api_key \in Keys
  /\ pdfplumber \in BOOLEAN
  /\ docx \in BOOLEAN
  /\ GEMINI_CLIENT \in BOOLEAN
  /\ i = 1
  /\ pc = "acquire"
  /\ results = << >>
  /\ tmp_files = {}
  /\ tmp_path = << >>
  /\ remove_failed = {}
  /\ text = << >>
  /\ client = "unset"
  /\ attempt = 0
  /\ log = << >>
  /\ resp = NoResp
  /\ slept = 0
  /\ decimal = NoFloat
  /\ fd = 0
  /\ fmethod = "round"
  /\ fout = << >>
  /\ fpc = "off"

\* ------------------------------------------------------- the batch loop
\* results[name] = rec
Put(res, name, rec) ==
  [n \in DOMAIN res \cup {name} |-> IF n = name THEN rec ELSE res[n]]

\* a success record whose text is rendered with method="floor"
SuccessRecordFloor(d, human) ==
  [decimal |-> d, human |-> convert_decimal_to_human(d, "floor")]
SuccessRecord(d, human) == [decimal |-> d, human |-> human]
ErrorRecord(e) == [error |-> e]

\* "except ValueError": only the unsupported-type error is caught
CaughtValueErrorOnly(exc) == exc = "ValueError"
\* "except Exception": every exception class raised in the try is caught
Caught(exc) == TRUE

\* a cleanup that leaves the file in place
RemoveTmpSkipped(files, idx) == files
\* os.remove(tmp_path) when it succeeds
RemoveTmp(files, idx) == files \ {idx}

\* an exception of class exc with message msg raised inside the try block
Raise(exc, msg) ==
  IF Caught(exc)
  THEN /\ results' = Put(results, f.name, ErrorRecord(msg))
       /\ pc' = "cleanup"
  ELSE /\ results' = results
       /\ pc' = "unwind"

\* lines 266-269: the temporary file is written; an OSError here is raised
\* outside the try and ends the loop
Acquire ==
  /\ pc = "acquire"
  /\ \/ /\ tmp_files' = tmp_files \cup {i}
        /\ tmp_path' = TmpName(Suffix(f.name))
        /\ pc' = "extract"
     \/ /\ pc' = "aborted"
        /\ UNCHANGED <<tmp_files, tmp_path>>
  /\ UNCHANGED <<envVars, i, results, remove_failed, askVars, fmtVars>>

\* line 271: extract_text(tmp_path)
ExtractText ==
  /\ pc = "extract"
  /\ LET r == ReaderFor(tmp_path)
     IN  \/ /\ r = "none"
            /\ Raise("ValueError", "Unsupported file type. Supported: .pdf, .docx, .txt")
            /\ text' = text
         \/ /\ r = "pdf" /\ ~pdfplumber
            /\ Raise("RuntimeError", "Install pdfplumber: pip install pdfplumber")
            /\ text' = text
         \/ /\ r = "docx" /\ ~docx
            /\ Raise("RuntimeError", "Install python-docx: pip install python-docx")
            /\ text' = text
         \/ /\ (r = "pdf" /\ pdfplumber) \/ (r = "docx" /\ docx)
            /\ Raise("Exception", "reader failed")
            /\ text' = text
         \/ /\ (r = "pdf" /\ pdfplumber) \/ (r = "docx" /\ docx) \/ r = "txt"
            /\ text' = Normalize(f.payload)
            /\ pc' = "ask"
            /\ results' = results
  /\ UNCHANGED <<envVars, i, tmp_files, tmp_path, remove_failed, fmtVars>>
  /\ UNCHANGED <<client, attempt, log, resp, slept, decimal>>

\* ------------------------------------------------- ask_gemini_for_years
\* an emptiness test that never fires
TextEmptyNever(t) == FALSE
\* line 179: "if not text"
TextEmpty(t) == t = << >>


\* the early return taken only when the client library is missing
NoModelLibOnly(key, lib) == ~lib
\* line 183: "if not api_key or GEMINI_CLIENT is None"
NoModel(key, lib) == key = "" \/ ~lib


\* one retry too many
RetryAllowedOffByOne(att, retries) == att <= retries
\* line 218: "if attempt < max_retries"
RetryAllowed(att, retries) == att < retries

\* lines 179-198: the early returns and the construction of the client;
\* Client(api_key=...) may raise, then configure(...) may raise as well
AskEnter ==
  /\ pc = "ask"
  /\ IF TextEmpty(text)
     THEN /\ decimal' = Num(0)
          /\ pc' = "format"
          /\ client' = client
     ELSE IF NoModel(api_key, GEMINI_CLIENT)
     THEN /\ decimal' = fallback_years(text)
          /\ pc' = "format"
          /\ client' = client
     ELSE \E c \in {"Client", "configure", "none"} :
            /\ client' = c
            /\ IF c = "none"
               THEN decimal' = fallback_years(text) /\ pc' = "format"
               ELSE decimal' = decimal /\ pc' = "attempt"
  /\ UNCHANGED <<envVars, i, results, tmp_files, tmp_path, remove_failed, fmtVars>>
  /\ UNCHANGED <<text, attempt, log, resp, slept>>

\* lines 217-221: the handler of the attempt's try block
AttemptFailed(kind) ==
  /\ log' = Append(log, kind)
  /\ IF RetryAllowed(attempt, max_retries)
     THEN pc' = "backoff" /\ decimal' = decimal
     ELSE pc' = "format" /\ decimal' = fallback_years(text)

\* lines 202-216: one model call and the parsing of what it returned
Attempt ==
  /\ pc = "attempt"
  /\ \/ AttemptFailed("call_raised") /\ resp' = resp
     \/ \E r \in Responses :
          /\ resp' = r
          /\ IF r.kind = "none"
             THEN AttemptFailed("processing_raised")
             ELSE /\ log' = Append(log, "returned")
                  /\ decimal' = ParseResponse(r.raw, text).x
                  /\ pc' = "format"
  /\ UNCHANGED <<envVars, i, results, tmp_files, tmp_path, remove_failed, fmtVars>>
  /\ UNCHANGED <<text, client, attempt, slept>>

\* lines 219-220 and the loop header at line 200: time.sleep(0.6 *
\* (attempt + 1)), slept in units of 0.6 s; a loop that runs out of
\* iterations falls off the function, which returns None
Backoff ==
  /\ pc = "backoff"
  /\ slept' = slept + attempt + 1
  /\ attempt' = attempt + 1
  /\ IF attempt + 1 < max_retries + 1
     THEN pc' = "attempt" /\ decimal' = decimal
     ELSE pc' = "format" /\ decimal' = NoFloat
  /\ UNCHANGED <<envVars, i, results, tmp_files, tmp_path, remove_failed, fmtVars>>
  /\ UNCHANGED <<text, client, log, resp>>

\* lines 273-274; the locals of the call that has returned are dropped
Format ==
  /\ pc = "format"
  /\ IF ConvertRaises(decimal)
     THEN IF decimal.k = "nan"
          THEN Raise("ValueError", "cannot convert float NaN to integer")
          ELSE Raise("TypeError", "int() argument must be a number")
     ELSE /\ results' = Put(results, f.name,
                            SuccessRecord(decimal, convert_decimal_to_human(decimal, "round")))
          /\ pc' = "cleanup"
  /\ client' = "unset"
  /\ attempt' = 0
  /\ log' = << >>
  /\ resp' = NoResp
  /\ slept' = 0
  /\ UNCHANGED <<envVars, i, tmp_files, tmp_path, remove_failed, text, decimal, fmtVars>>

\* lines 277-281 and the loop header at line 265: os.remove may raise,
\* which is ignored; an exception that was not caught goes on after it.
\* text and decimal are written again before the next document reads them
Cleanup ==
  /\ pc \in {"cleanup", "unwind"}
  /\ \/ /\ tmp_files' = RemoveTmp(tmp_files, i)
        /\ remove_failed' = remove_failed
     \/ /\ tmp_files' = tmp_files
        /\ remove_failed' = remove_failed \cup {i}
  /\ IF pc = "unwind"
     THEN pc' = "aborted" /\ i' = i
     ELSE /\ i' = i + 1
          /\ pc' = IF i < Len(uploaded) THEN "acquire" ELSE "done"
  /\ text' = << >>
  /\ decimal' = NoFloat
  /\ UNCHANGED <<envVars, results, tmp_path, fmtVars>>
  /\ UNCHANGED <<client, attempt, log, resp, slept>>

Next == Acquire \/ ExtractText \/ AskEnter \/ Attempt \/ Backoff \/ Format \/ Cleanup

Spec == Init /\ [][Next]_vars

\* ------------------------------- convert_decimal_to_human on any input
InitFmt ==
  /\ uploaded = <<CHOOSE d \in Docs : TRUE>>
  /\ api_key = ""
  /\ pdfplumber = FALSE
  /\ docx = FALSE
  /\ GEMINI_CLIENT = FALSE
  /\ i = 1
  /\ pc = "off"
  /\ results = << >>
  /\ tmp_files = {}
  /\ tmp_path = << >>
  /\ remove_failed = {}
  /\ text = << >>
  /\ client = "unset"
  /\ attempt = 0
  /\ log = << >>
  /\ resp = NoResp
  /\ slept = 0
  /\ decimal = NoFloat
  /\ fd \in 0..MaxMilli
  /\ fmethod \in {"round", "floor"}
  /\ fout = << >>
  /\ fpc = "in"

FormatDuration ==
  /\ fpc = "in"
  /\ fout' = convert_decimal_to_human(Num(fd), fmethod)
  /\ fpc' = "out"
  /\ UNCHANGED <<envVars, loopVars, askVars, fd, fmethod>>

NextFmt == FormatDuration

SpecFmt == InitFmt /\ [][NextFmt]_vars

\* ----------------------------------------------------------- properties
Returned == pc = "format"
LastOutcome == IF log = << >> THEN "none" ELSE log[Len(log)]
HasNumeral(raw) == \E j \in 1..Len(raw) : raw[j] \in Digits
FirstNumeral(raw) ==
  LET p == CHOOSE j \in 1..Len(raw) :
             raw[j] \in Digits /\ \A h \in 1..(j - 1) : raw[h] \notin Digits
  IN  Num(NumeralAt(raw, p).m)

\* C1: when ask_gemini_for_years has returned, its value is a number that
\* is not negative and has one decimal place.
C1_NonNegativeOneDecimal ==
  Returned => decimal.k = "num" /\ decimal.m >= 0 /\ decimal.m % 100 = 0

\* C2: one invocation makes at most max_retries + 1 model calls, every
\* attempt but the last one failed, and when the last allowed attempt
\* fails the value returned is fallback_years(text).
C2_BoundedAttempts ==
  /\ Len(log) <= max_retries + 1
  /\ \A j \in 1..(Len(log) - 1) : log[j] # "returned"
  /\ pc \in {"attempt", "backoff"} => LastOutcome # "returned"
  /\ (Returned /\ Len(log) = max_retries + 1 /\ LastOutcome # "returned")
       => decimal = fallback_years(text)

C2_Witness ==
  /\ Returned
  /\ log = <<"call_raised", "call_raised", "call_raised">>
  /\ decimal = Num(12000)

\* C3: once a model call has returned a response there is no further model
\* call and no backoff wait in the invocation, and a response with neither
\* a JSON object nor a numeral resolves to fallback_years(text).
C3_RetryOnlyOnCallFailure ==
  /\ \A j \in 1..Len(log) :
       log[j] # "call_raised" => j = Len(log) /\ pc \notin {"attempt", "backoff"}
  /\ (Returned /\ LastOutcome = "returned"
        /\ ~JsonSpan(resp.raw).found /\ ~HasNumeral(resp.raw))
       => decimal = fallback_years(text)

\* C4: with an empty api_key no client is built and no model call is made,
\* and the value returned is fallback_years(text), whether the client
\* library is available or not.
C4_NoCredential ==
  api_key = "" =>
    /\ pc \notin {"attempt", "backoff"}
    /\ log = << >>
    /\ client = "unset"
    /\ Returned => decimal = fallback_years(text)

C4_Witness ==
  /\ Returned
  /\ api_key = ""
  /\ GEMINI_CLIENT
  /\ text # << >>
  /\ decimal = Num(3000)

\* C5: with an empty text the value returned is 0.0 and neither a client
\* is built nor a model call made, whatever the credential.
C5_EmptyText ==
  (pc \in {"attempt", "backoff", "format"} /\ text = << >>) =>
    /\ Returned
    /\ decimal = Num(0)
    /\ client = "unset"
    /\ log = << >>

C5_Witness ==
  /\ Returned
  /\ text = << >>
  /\ api_key = "key"
  /\ GEMINI_CLIENT
  /\ decimal = Num(0)

\* C6: no exception raised in a document's try block leaves it: the
\* failing document gets a record and the loop goes on, so every document
\* taken so far, and every uploaded document once the loop is done, has a
\* record under its file name.
C6_BatchContinues ==
  /\ pc # "unwind"
  /\ pc = "cleanup" => f.name \in DOMAIN results
  /\ \A j \in 1..Len(uploaded) : j < i => uploaded[j].name \in DOMAIN results
  /\ pc = "done" => i = Len(uploaded) + 1

C6_Witness ==
  /\ pc = "done"
  /\ Len(uploaded) = 2
  /\ uploaded[1].name = <<"e", ".", "csv">>
  /\ uploaded[2].name = <<"a", ".", "txt">>
  /\ DOMAIN results[uploaded[1].name] = {"error"}
  /\ DOMAIN results[uploaded[2].name] = {"decimal", "human"}

ErrorStrings ==
  { "Unsupported file type. Supported: .pdf, .docx, .txt",
    "Install pdfplumber: pip install pdfplumber",
    "Install python-docx: pip install python-docx",
    "reader failed",
    "cannot convert float NaN to integer",
    "int() argument must be a number" }

\* C7: every record of results holds either an error string and nothing
\* else, or a decimal and a human text and no error, the text being
\* convert_decimal_to_human(decimal, "round").
C7_RecordShape ==
  \A n \in DOMAIN results :
    \/ /\ DOMAIN results[n] = {"error"}
       /\ results[n].error \in ErrorStrings
    \/ /\ DOMAIN results[n] = {"decimal", "human"}
       /\ results[n].decimal.k = "num"
       /\ results[n].human = convert_decimal_to_human(results[n].decimal, "round")

C7_Witness ==
  /\ pc = "done"
  /\ \E n \in DOMAIN results :
       /\ DOMAIN results[n] = {"decimal", "human"}
       /\ results[n].decimal = Num(3800)
       /\ results[n].human = <<3, "years", 10, "months">>
  /\ \E n \in DOMAIN results : DOMAIN results[n] = {"error"}

ParseHuman(h) ==
  LET words == {j \in DOMAIN h : j % 2 = 0}
      at(w) == {j \in words : h[j] = w}
  IN  [years |-> IF at("years") = {} THEN 0 ELSE h[(CHOOSE j \in at("years") : TRUE) - 1],
       months |-> IF at("months") = {} THEN 0 ELSE h[(CHOOSE j \in at("months") : TRUE) - 1]]

\* C9: for d >= 0 the text of convert_decimal_to_human(d, "round") has
\* months in 0..11 and years >= floor(d); months that round to 12 carry
\* into one more year with months 0.
C9_MonthsInRange ==
  (fpc = "out" /\ fmethod = "round") =>
    LET h == ParseHuman(fout)
        whole == fd \div 1000
    IN  /\ h.months \in 0..11
        /\ h.years >= whole
        /\ 2 * ((fd % 1000) * 12) >= 23000 => h.years = whole + 1 /\ h.months = 0

C9_Witness ==
  /\ fpc = "out"
  /\ fmethod = "round"
  /\ fd = 2999
  /\ fout = <<3, "years">>

====
